---------------------------- MODULE Spec2Model ----------------------------
(***************************************************************************)
(* A model of python-i-dunno (RFC 8771): the bit-packing codec             *)
(* form_i_dunno / deform_i_dunno, the confusion classifier                 *)
(* get_confusion_level (src/idunno/idunno.py) and the range merger         *)
(* merge_ranges (src/idunno/tools.py).                                     *)
(*                                                                         *)
(* Python integers are unbounded.  An address value or an accumulator is   *)
(* therefore kept as a little-endian sequence of bits (bit k of the        *)
(* integer is element k+1); a code point (< 2^21) is a plain number.       *)
(***************************************************************************)
EXTENDS Integers, Sequences, FiniteSets, TLC

VARIABLES
    pc,            \* position of the running call
    a, N, fmt,     \* form_i_dunno: address value, its bit width, the format
    fpos,          \* form_i_dunno: entries of fmt already read
    r, i,          \* form_i_dunno: result string, bits consumed; deform_i_dunno: i
    s, v,          \* deform_i_dunno: the string still to read, the accumulator
    dpos,          \* deform_i_dunno: code points of reversed(s) already read
    ls, lpos,      \* get_confusion_level: its argument s, code points already read
    flags,         \* get_confusion_level: the m_, s_ and d_ booleans
    used_scripts, directionalities,
    level,         \* the value get_confusion_level returned
    op,            \* the outermost call: "form", "deform", "level" or "merge"
    ret, err,      \* value returned / exception raised by the outermost call
    mr, mpos,      \* merge_ranges: its argument r, entries already read
    pending,       \* merge_ranges: <<pending_start, pending_stop, pending_args>>
    out            \* merge_ranges: the entries yielded so far

vars == <<pc, a, N, fmt, fpos, r, i, s, v, dpos, ls, lpos, flags, used_scripts,
          directionalities, level, op, ret, err, mr, mpos, pending, out>>

-----------------------------------------------------------------------------
(* Unbounded integers as little-endian bit sequences *)

Max(x, y) == IF x >= y THEN x ELSE y

RECURSIVE Pow2(_)
Pow2(n) == IF n = 0 THEN 1 ELSE 2 * Pow2(n - 1)

RECURSIVE SumSeq(_)
SumSeq(q) == IF q = <<>> THEN 0 ELSE Head(q) + SumSeq(Tail(q))

RECURSIVE IntToBits(_)
IntToBits(c) == IF c = 0 THEN <<>> ELSE <<c % 2>> \o IntToBits(c \div 2)

RECURSIVE BitsToInt(_)
BitsToInt(b) == IF b = <<>> THEN 0 ELSE Head(b) + 2 * BitsToInt(Tail(b))

Bit(b, k) == IF k >= 1 /\ k <= Len(b) THEN b[k] ELSE 0

\* x << k
Shl(b, k) == [x \in 1..(Len(b) + k) |-> IF x <= k THEN 0 ELSE b[x - k]]

\* x >> k, for k >= 0
Shr(b, k) == IF k >= Len(b) THEN <<>> ELSE SubSeq(b, k + 1, Len(b))

\* x | y
BitOr(x, y) ==
    [k \in 1..Max(Len(x), Len(y)) |-> IF Bit(x, k) = 1 \/ Bit(y, k) = 1 THEN 1 ELSE 0]

\* x & (2 ** n - 1), a number below 2^n
AndMask(b, n) == BitsToInt([k \in 1..n |-> Bit(b, k)])

\* the integer is below 2^n
Below2(b, n) == \A k \in 1..Len(b) : k > n => b[k] = 0

-----------------------------------------------------------------------------
(* tools.merge_ranges *)

\* Python's None in a numeric slot (range bounds are never negative), and the
\* list [None] that the starred target pending_args is first bound to.
None == -1
NoneArgs == <<"None">>

\* start, stop, *args = entry
EntryArgs(e) == SubSeq(e, 3, Len(e))

\* the tuple  pending_start, pending_stop, *pending_args
PendingTuple(p) == <<p[1], p[2]>> \o p[3]

\* One iteration of the loop of merge_ranges on entry e with pending p:
\* <<the new pending, the entries yielded by this iteration>>.
MergeEntry(p, e) ==
    IF p[1] = None
      THEN <<<<e[1], e[2], EntryArgs(e)>>, <<>>>>
      ELSE IF p[3] = EntryArgs(e) /\ p[2] + 1 = e[1]
             THEN <<<<p[1], e[2], p[3]>>, <<>>>>
             ELSE <<<<e[1], e[2], EntryArgs(e)>>, <<PendingTuple(p)>>>>

RECURSIVE MergeFrom(_, _, _)
MergeFrom(p, rr, acc) ==
    IF rr = <<>>
      THEN Append(acc, PendingTuple(p))
      ELSE LET step == MergeEntry(p, Head(rr))
           IN  MergeFrom(step[1], Tail(rr), acc \o step[2])

\* list(merge_ranges(rr))
merge_ranges(rr) == MergeFrom(<<None, None, NoneArgs>>, rr, <<>>)

-----------------------------------------------------------------------------
(* The tables loaded at import.  The triples are an abridged snapshot of    *)
(* what get_scripts_ranges, get_emoji_ranges and get_confusable yield       *)
(* (Scripts.txt, emoji-data.txt, confusablesSummary.txt), in file order.    *)

ScriptsRaw ==
    << <<0, 31, "Common">>, <<32, 64, "Common">>, <<91, 96, "Common">>,
       <<123, 169, "Common">>, <<171, 185, "Common">>,
       <<8192, 8203, "Common">>, <<8206, 8292, "Common">>,
       <<8352, 8383, "Common">>, <<128512, 128591, "Common">>,
       <<65, 90, "Latin">>, <<97, 122, "Latin">>, <<192, 214, "Latin">>,
       <<216, 246, "Latin">>, <<248, 696, "Latin">>,
       <<913, 929, "Greek">>, <<931, 993, "Greek">>,
       <<1024, 1153, "Cyrillic">>, <<1162, 1327, "Cyrillic">>,
       <<1488, 1514, "Hebrew">>, <<1568, 1599, "Arabic">>,
       <<19968, 40956, "Han">>, <<44032, 55203, "Hangul">> >>

EmojiRaw ==
    << <<48, 57, "Emoji">>, <<128512, 128591, "Emoji">>,
       <<128512, 128591, "Emoji_Presentation">> >>

\* "l", "rn", CYRILLIC SMALL LETTER A, "1"
confusables == << <<108>>, <<114, 110>>, <<1072>>, <<49>> >>

emoji_ranges == merge_ranges(EmojiRaw)
scripts_ranges == merge_ranges(ScriptsRaw)

\* (start << 32) | (end + 1), kept as the pair <<start, end + 1>>
PackRange(start, end) == <<start, end + 1>>

intranges_emoji ==
    [k \in 1..Len(emoji_ranges) |-> PackRange(emoji_ranges[k][1], emoji_ranges[k][2])]

scripts == {scripts_ranges[k][3] : k \in 1..Len(scripts_ranges)}

RECURSIVE SelectRanges(_, _)
SelectRanges(rr, script) ==
    IF rr = <<>> THEN <<>>
    ELSE IF Head(rr)[3] = script
           THEN <<PackRange(Head(rr)[1], Head(rr)[2])>> \o SelectRanges(Tail(rr), script)
           ELSE SelectRanges(Tail(rr), script)

intranges_scripts == [script \in scripts |-> SelectRanges(scripts_ranges, script)]

\* idna.intranges_contain: some packed range has start <= int_ < end
intranges_contain(c, ranges) ==
    \E k \in 1..Len(ranges) : ranges[k][1] <= c /\ c < ranges[k][2]

\* unicodedata.category, by ranges; "Xx" stands for every category that is
\* neither Cc, Cf, Cn nor a symbol (letters, marks, numbers, punctuation, ...).
category(c) ==
    IF c <= 31 \/ (127 <= c /\ c <= 159) THEN "Cc"
    ELSE IF c = 173 \/ (8203 <= c /\ c <= 8207) THEN "Cf"
    ELSE IF c \in {43, 60, 61, 62, 124, 126, 172, 177, 215, 247} THEN "Sm"
    ELSE IF c = 36 \/ (162 <= c /\ c <= 165) \/ (8352 <= c /\ c <= 8383) THEN "Sc"
    ELSE IF c \in {94, 96, 168, 175, 180, 184} THEN "Sk"
    ELSE IF c \in {166, 169, 174, 176, 1154} \/ (128512 <= c /\ c <= 128591) THEN "So"
    ELSE IF \/ c <= 696
            \/ (913 <= c /\ c <= 929) \/ (931 <= c /\ c <= 993)
            \/ (1024 <= c /\ c <= 1327)
            \/ (1488 <= c /\ c <= 1514) \/ (1568 <= c /\ c <= 1599)
            \/ (8192 <= c /\ c <= 8202)
            \/ (19968 <= c /\ c <= 40956) \/ (44032 <= c /\ c <= 55203) THEN "Xx"
    ELSE "Cn"

\* unicodedata.bidirectional, by ranges ("" for an unassigned code point)
bidirectional(c) ==
    IF c <= 8 \/ (14 <= c /\ c <= 27) \/ (127 <= c /\ c <= 132)
         \/ (134 <= c /\ c <= 159) \/ c = 173 \/ (8203 <= c /\ c <= 8205) THEN "BN"
    ELSE IF c \in {10, 13, 28, 29, 30, 133} THEN "B"
    ELSE IF c \in {9, 11, 31} THEN "S"
    ELSE IF c \in {12, 32} \/ (8192 <= c /\ c <= 8202) THEN "WS"
    ELSE IF c \in {35, 36, 37, 176, 177} \/ (162 <= c /\ c <= 165)
              \/ (8352 <= c /\ c <= 8383) THEN "ET"
    ELSE IF c \in {43, 45} THEN "ES"
    ELSE IF c \in {44, 46, 47, 58, 160} THEN "CS"
    ELSE IF (48 <= c /\ c <= 57) \/ c \in {178, 179, 185} THEN "EN"
    ELSE IF (1488 <= c /\ c <= 1514) \/ c = 8207 THEN "R"
    ELSE IF 1568 <= c /\ c <= 1599 THEN "AL"
    ELSE IF 1155 <= c /\ c <= 1161 THEN "NSM"
    ELSE IF \/ (65 <= c /\ c <= 90) \/ (97 <= c /\ c <= 122)
            \/ c \in {170, 181, 186} \/ (192 <= c /\ c <= 214)
            \/ (216 <= c /\ c <= 246) \/ (248 <= c /\ c <= 696)
            \/ (913 <= c /\ c <= 929) \/ (931 <= c /\ c <= 993)
            \/ (1024 <= c /\ c <= 1154) \/ (1162 <= c /\ c <= 1327)
            \/ c = 8206
            \/ (19968 <= c /\ c <= 40956) \/ (44032 <= c /\ c <= 55203) THEN "L"
    ELSE IF c <= 191 \/ c \in {215, 247} \/ (128512 <= c /\ c <= 128591) THEN "ON"
    ELSE ""

-----------------------------------------------------------------------------
(* get_confusion_level *)

\* the locals of get_confusion_level as first assigned
InitFlags ==
    [ m_sequence_bigger_than_one_octet |-> FALSE,
      m_disallowed                     |-> TRUE,
      s_non_printable_char             |-> FALSE,
      s_two_different_scripts          |-> FALSE,
      s_symbol                         |-> FALSE,
      d_different_directionalities     |-> FALSE,
      d_confusable                     |-> FALSE,
      d_emoji                          |-> FALSE ]

\* unicodedata.category(c).startswith("S")
StartsWithS(cat) == cat \in {"Sm", "Sc", "Sk", "So"}

\* the scripts whose ranges hold c (the for/else loop adds the first it meets)
MatchingScripts(c) == {script \in scripts : intranges_contain(c, intranges_scripts[script])}

\* x in y, for two strings
IsSubstring(x, y) ==
    \E k \in 0..(Len(y) - Len(x)) : SubSeq(y, k + 1, k + Len(x)) = x

\* True + True + False ...
CountTrue(bs) == Cardinality({k \in 1..Len(bs) : bs[k]})

\* Mutant of CharFlags: plain assignment instead of |= for the octet flag.
CharFlags_Overwrite(f, c) ==
    [f EXCEPT !.m_sequence_bigger_than_one_octet = c > 127,
              !.s_non_printable_char = @ \/ category(c) \in {"Cf", "Cc"},
              !.s_symbol = @ \/ StartsWithS(category(c))]

\* the three |= before the script lookup, for one code point
CharFlags(f, c) ==
    [f EXCEPT !.m_sequence_bigger_than_one_octet = @ \/ c > 127,
              !.s_non_printable_char = @ \/ category(c) \in {"Cf", "Cc"},
              !.s_symbol = @ \/ StartsWithS(category(c))]

\* Mutant of ComputeLevel: the satisfactory test comes before the minimum test.
ComputeLevel_NoMinimumGate(f) ==
    IF CountTrue(<<f.s_non_printable_char, f.s_two_different_scripts, f.s_symbol>>) >= 2
      THEN IF CountTrue(<<f.d_different_directionalities, f.d_confusable, f.d_emoji>>) >= 2
             THEN "DELIGHTFUL"
             ELSE "SATISFACTORY"
      ELSE IF f.m_sequence_bigger_than_one_octet /\ f.m_disallowed
             THEN "MINIMUM"
             ELSE "NONE"

\* the nested ifs that end get_confusion_level
ComputeLevel(f) ==
    IF f.m_sequence_bigger_than_one_octet /\ f.m_disallowed
      THEN IF CountTrue(<<f.s_non_printable_char, f.s_two_different_scripts, f.s_symbol>>) >= 2
             THEN IF CountTrue(<<f.d_different_directionalities, f.d_confusable, f.d_emoji>>) >= 2
                    THEN "DELIGHTFUL"
                    ELSE "SATISFACTORY"
             ELSE "MINIMUM"
      ELSE "NONE"

\* One iteration of  for c in s.
LevelChar ==
    /\ pc = "level_loop"
    /\ lpos < Len(ls)
    /\ LET c == ls[lpos + 1]
           f == CharFlags(flags, c)
       IN  IF MatchingScripts(c) = {}
             THEN /\ pc' = "raised"
                  /\ err' = "UnknownScript"
                  /\ flags' = f
                  /\ UNCHANGED <<lpos, used_scripts, directionalities>>
             ELSE /\ \E script \in MatchingScripts(c) :
                        used_scripts' = used_scripts \cup {script}
                  /\ directionalities' = directionalities \cup {bidirectional(c)}
                  /\ flags' = [f EXCEPT !.d_emoji = @ \/ intranges_contain(c, intranges_emoji)]
                  /\ lpos' = lpos + 1
                  /\ UNCHANGED <<pc, err>>
    /\ UNCHANGED <<a, N, fmt, fpos, r, i, s, v, dpos, ls, level, op, ret, mr, mpos, pending, out>>

\* After the loop: the set sizes, the confusables, the level; then the return,
\* to the caller of get_confusion_level or into form_i_dunno.
LevelFinish ==
    /\ pc = "level_loop"
    /\ lpos = Len(ls)
    /\ LET f == [flags EXCEPT
                   !.s_two_different_scripts = @ \/ Cardinality(used_scripts) >= 2,
                   !.d_different_directionalities = @ \/ Cardinality(directionalities) >= 2,
                   !.d_confusable = \E k \in 1..Len(confusables) : IsSubstring(confusables[k], ls)]
       IN  /\ flags' = f
           /\ level' = ComputeLevel(f)
           /\ IF op = "form"
                THEN pc' = "form_level" /\ ret' = ret
                ELSE pc' = "done" /\ ret' = ComputeLevel(f)
    /\ UNCHANGED <<a, N, fmt, fpos, r, i, s, v, dpos, ls, lpos, used_scripts, directionalities,
                   op, err, mr, mpos, pending, out>>

-----------------------------------------------------------------------------
(* form_i_dunno *)

IPV4LENGTH == 32
IPV6LENGTH == 128

\* chr() accepts 0 .. 0x10FFFF
MaxCodePoint == 1114111

\* Mutant of FormChunk: the shift forgets the width of the chunk being taken.
FormChunk_ShiftTooFar(addr, width, consumed, n) == AndMask(Shr(addr, width - consumed), n)

\* v = a >> (N - i - n) & (2 ** n - 1)
FormChunk(addr, width, consumed, n) == AndMask(Shr(addr, width - consumed - n), n)

\* Mutant of FormatMatches: the sum is only required not to exceed N.
FormatMatches_AtMost(f, width) == SumSeq(f) <= width

\* not (sum(fmt) != N)
FormatMatches(f, width) == SumSeq(f) = width

\* Mutant of IsInsufficient: the level is never rejected.
IsInsufficient_Never(lv) == FALSE

\* get_confusion_level(r) == ConfusionLevel.NONE
IsInsufficient(lv) == lv = "NONE"

\* Lines 66-72: the locals, then the check of the format.
FormCheck ==
    /\ pc = "form"
    /\ r' = <<>>
    /\ i' = 0
    /\ fpos' = 0
    /\ IF FormatMatches(fmt, N)
         THEN pc' = "form_loop" /\ err' = err
         ELSE pc' = "raised" /\ err' = "FormatMismatch"
    /\ UNCHANGED <<a, N, fmt, s, v, dpos, ls, lpos, flags, used_scripts, directionalities,
                   level, op, ret, mr, mpos, pending, out>>

\* One iteration of  for n in fmt  (chr raises beyond 0x10FFFF).
FormStep ==
    /\ pc = "form_loop"
    /\ fpos < Len(fmt)
    /\ LET n   == fmt[fpos + 1]
           chk == FormChunk(a, N, i, n)
       IN  IF chk > MaxCodePoint
             THEN /\ pc' = "raised"
                  /\ err' = "ChrRange"
                  /\ UNCHANGED <<r, i, fpos>>
             ELSE /\ r' = Append(r, chk)
                  /\ i' = i + n
                  /\ fpos' = fpos + 1
                  /\ UNCHANGED <<pc, err>>
    /\ UNCHANGED <<a, N, fmt, s, v, dpos, ls, lpos, flags, used_scripts, directionalities,
                   level, op, ret, mr, mpos, pending, out>>

\* Line 79: the call get_confusion_level(r).
FormClassify ==
    /\ pc = "form_loop"
    /\ fpos = Len(fmt)
    /\ pc' = "level_loop"
    /\ ls' = r
    /\ lpos' = 0
    /\ flags' = InitFlags
    /\ used_scripts' = {}
    /\ directionalities' = {}
    /\ UNCHANGED <<a, N, fmt, fpos, r, i, s, v, dpos, level, op, ret, err,
                   mr, mpos, pending, out>>

\* Lines 79-81: the comparison with NONE, the raise or the return.
FormReturn ==
    /\ pc = "form_level"
    /\ IF IsInsufficient(level)
         THEN pc' = "raised" /\ err' = "InsufficientConfusion" /\ ret' = ret
         ELSE pc' = "done" /\ ret' = r /\ err' = err
    /\ UNCHANGED <<a, N, fmt, fpos, r, i, s, v, dpos, ls, lpos, flags, used_scripts,
                   directionalities, level, op, mr, mpos, pending, out>>

-----------------------------------------------------------------------------
(* deform_i_dunno *)

\* n = 7 if c <= 0x7F else 11 if c <= 0x7FF else 16 if c <= 0xFFFF else 21
NaturalWidth(c) ==
    IF c <= 127 THEN 7 ELSE IF c <= 2047 THEN 11 ELSE IF c <= 65535 THEN 16 ELSE 21

\* Mutant of AddressClass: the IPv4 window allows up to 21 bits of padding.
AddressClass_WideV4(bits) ==
    IF 32 <= bits /\ bits <= 53 THEN "IPv4Address"
    ELSE IF 128 <= bits /\ bits < 148 THEN "IPv6Address"
    ELSE "ValueError"

\* Mutant of AddressClass: the IPv6 window is closed at 148.
AddressClass_WideV6(bits) ==
    IF 32 <= bits /\ bits < 52 THEN "IPv4Address"
    ELSE IF 128 <= bits /\ bits <= 148 THEN "IPv6Address"
    ELSE "ValueError"

\* the if / elif / else on i
AddressClass(bits) ==
    IF 32 <= bits /\ bits < 52 THEN "IPv4Address"
    ELSE IF 128 <= bits /\ bits < 148 THEN "IPv6Address"
    ELSE "ValueError"

\* padding = i - (IPV4LENGTH if kls == IPv4Address else IPV6LENGTH)
Padding(kls, bits) == bits - (IF kls = "IPv4Address" THEN IPV4LENGTH ELSE IPV6LENGTH)

\* kls(v) accepts 0 <= v < 2 ** max_prefixlen
ClassWidth(kls) == IF kls = "IPv4Address" THEN IPV4LENGTH ELSE IPV6LENGTH

\* Mutant of Accumulate: the code point is not shifted to its place.
Accumulate_NoShift(acc, c, bits) == BitOr(acc, IntToBits(c))

\* v |= (c << i)
Accumulate(acc, c, bits) == BitOr(acc, Shl(IntToBits(c), bits))

\* One iteration of  for c in reversed(s).
DeformStep ==
    /\ pc = "deform_loop"
    /\ dpos < Len(s)
    /\ LET c == s[Len(s) - dpos]
           n == NaturalWidth(c)
       IN  /\ v' = Accumulate(v, c, i)
           /\ i' = i + n
    /\ dpos' = dpos + 1
    /\ UNCHANGED <<pc, a, N, fmt, fpos, r, s, ls, lpos, flags, used_scripts, directionalities,
                   level, op, ret, err, mr, mpos, pending, out>>

\* Lines 42-50: the class from i, the padding shifted out, the address built.
DeformEnd ==
    /\ pc = "deform_loop"
    /\ dpos = Len(s)
    /\ LET kls == AddressClass(i)
       IN  IF kls = "ValueError"
             THEN /\ pc' = "raised"
                  /\ err' = "InvalidLength"
                  /\ UNCHANGED <<v, ret>>
             ELSE /\ v' = Shr(v, Padding(kls, i))
                  /\ IF Below2(v', ClassWidth(kls))
                       THEN pc' = "done" /\ err' = err
                                         /\ ret' = [kls |-> kls, value |-> v']
                       ELSE pc' = "raised" /\ err' = "AddressValueError" /\ ret' = ret
    /\ UNCHANGED <<a, N, fmt, fpos, r, i, s, dpos, ls, lpos, flags, used_scripts,
                   directionalities, level, op, mr, mpos, pending, out>>

\* deform_i_dunno(form_i_dunno(a, fmt)): the string form_i_dunno returned is
\* handed to deform_i_dunno.
RoundTrip ==
    /\ pc = "done"
    /\ op = "form"
    /\ op' = "deform"
    /\ pc' = "deform_loop"
    /\ s' = ret
    /\ v' = <<>>
    /\ i' = 0
    /\ dpos' = 0
    /\ ret' = "unset"
    /\ UNCHANGED <<a, N, fmt, fpos, r, ls, lpos, flags, used_scripts, directionalities,
                   level, err, mr, mpos, pending, out>>

-----------------------------------------------------------------------------
(* tools.merge_ranges, as the generator runs *)

\* One iteration of  for start, stop, *args in r.
MergeStep ==
    /\ pc = "merge_loop"
    /\ mpos < Len(mr)
    /\ LET step == MergeEntry(pending, mr[mpos + 1])
       IN  /\ pending' = step[1]
           /\ out' = out \o step[2]
    /\ mpos' = mpos + 1
    /\ UNCHANGED <<pc, a, N, fmt, fpos, r, i, s, v, dpos, ls, lpos, flags, used_scripts,
                   directionalities, level, op, ret, err, mr>>

\* The yield after the loop; the generator is exhausted.
MergeFinish ==
    /\ pc = "merge_loop"
    /\ mpos = Len(mr)
    /\ out' = Append(out, PendingTuple(pending))
    /\ ret' = out'
    /\ pc' = "done"
    /\ UNCHANGED <<a, N, fmt, fpos, r, i, s, v, dpos, ls, lpos, flags, used_scripts,
                   directionalities, level, op, err, mr, mpos, pending>>

-----------------------------------------------------------------------------
(* The calls explored *)

Rep(x, k) == [j \in 1..k |-> x]

\* the n low bits of c, little-endian
PadBits(c, n) == [k \in 1..n |-> (c \div Pow2(k - 1)) % 2]

\* the integer whose big-endian digits are chunks, chunk k being widths[k] bits wide
RECURSIVE FromChunks(_, _)
FromChunks(chunks, widths) ==
    IF chunks = <<>> THEN <<>>
    ELSE FromChunks(Tail(chunks), Tail(widths)) \o PadBits(Head(chunks), Head(widths))

FromOctets(os) == FromChunks(os, Rep(8, Len(os)))

\* 198.51.100.164 is the address of the RFC's example
V4Octets == {0, 51, 100, 164, 198}
V6Octets == {0, 45, 78}

AddressesV4 == {FromOctets(os) : os \in [1..4 -> V4Octets]}

\* four octets repeated four times, and two addresses given by their chunks
AddressesV6 ==
    {FromOctets(os \o os \o os \o os) : os \in [1..4 -> V6Octets]}
    \cup {FromChunks(<<65, 65, 65, 65, 65, 1188, 65>>, <<21, 21, 21, 21, 21, 16, 7>>),
          FromChunks(<<128512, 128512, 128512, 128512, 128512, 20013, 65>>,
                     <<21, 21, 21, 21, 21, 16, 7>>)}

FormatsV4 ==
    {<<7, 7, 7, 11>>, <<7, 7, 11, 7>>, <<7, 11, 7, 7>>, <<11, 7, 7, 7>>,
     <<16, 16>>, <<21, 11>>, <<11, 21>>}

FormatsV6 ==
    {Rep(16, 8), <<21, 21, 21, 21, 21, 16, 7>>, <<7, 16, 21, 21, 21, 21, 21>>,
     <<7, 7, 7, 11>> \o <<7, 7, 7, 11>> \o <<7, 7, 7, 11>> \o <<7, 7, 7, 11>>}

\* formats that sum to neither 32 nor 128
FormatsOther ==
    {<<>>, <<7, 7, 7>>, <<7, 7, 7, 7, 7>>, <<16, 16, 16>>,
     <<21, 21, 21, 21, 21, 11, 11>>, Rep(16, 8) \o <<7>>}

Formats == FormatsV4 \cup FormatsV6 \cup FormatsOther

\* the longest string handed to deform_i_dunno on its own: of runs, of any shape
MaxDecodeLen == 8
MaxMixedLen == 3
\* the longest string handed to get_confusion_level on its own
MaxLevelLen == 3
\* the longest sequence handed to merge_ranges, and its largest code point
MaxRanges == 3
MaxPoint == 6

\* the least and the greatest code point of each natural width
LowPoints == <<0, 128, 2048, 65536>>
HighPoints == <<127, 2047, 65535, 1114111>>

\* strings made of up to four runs, one per natural width, in either order
RunStrings ==
    {IF up THEN Rep(pts[1], cnt[1]) \o Rep(pts[2], cnt[2]) \o Rep(pts[3], cnt[3]) \o Rep(pts[4], cnt[4])
           ELSE Rep(pts[4], cnt[4]) \o Rep(pts[3], cnt[3]) \o Rep(pts[2], cnt[2]) \o Rep(pts[1], cnt[1])
       : <<cnt, pts, up>> \in
           {q \in [1..4 -> 0..MaxDecodeLen] : q[1] + q[2] + q[3] + q[4] <= MaxDecodeLen}
           \X {LowPoints, HighPoints} \X BOOLEAN}

\* every string of the least and greatest code points, up to MaxMixedLen long
MixedStrings ==
    UNION {[1..k -> {LowPoints[j] : j \in 1..4} \cup {HighPoints[j] : j \in 1..4}]
             : k \in 0..MaxMixedLen}

\* c, FF, l, CYRILLIC CAPITAL LIGATURE EN GHE, +, 1, r, n, EURO SIGN, ALEF,
\* GRINNING FACE, and the unassigned U+0378
LevelAlphabet == {99, 12, 108, 1188, 43, 49, 114, 110, 8364, 1488, 128512, 888}

Strings(alphabet, n) == UNION {[1..k -> alphabet] : k \in 0..n}

MergeEntries ==
    {<<start, stop, tag>> : <<start, stop>> \in {p \in (1..MaxPoint) \X (1..MaxPoint) : p[1] <= p[2]},
                            tag \in {"Latin", "Greek"}}

\* sequences sorted by start
MergeInputs ==
    {q \in Strings(MergeEntries, MaxRanges) : \A k \in 1..(Len(q) - 1) : q[k][1] <= q[k + 1][1]}

IdleForm == a = <<>> /\ N = 0 /\ fmt = <<>> /\ fpos = 0 /\ r = <<>>
IdleDeform == s = <<>> /\ v = <<>> /\ dpos = 0
IdleLevel ==
    /\ ls = <<>> /\ lpos = 0 /\ flags = InitFlags
    /\ used_scripts = {} /\ directionalities = {} /\ level = "unset"
IdleMerge == mr = <<>> /\ mpos = 0 /\ pending = <<None, None, NoneArgs>> /\ out = <<>>

\* form_i_dunno(a, fmt) is called
InitForm ==
    /\ op = "form" /\ pc = "form"
    /\ \/ N = IPV4LENGTH /\ a \in AddressesV4
       \/ N = IPV6LENGTH /\ a \in AddressesV6
    /\ fmt \in Formats
    /\ fpos = 0 /\ r = <<>> /\ i = 0
    /\ IdleDeform /\ IdleLevel /\ IdleMerge
    /\ ret = "unset" /\ err = "none"

\* deform_i_dunno(s) is called: v = 0, i = 0
InitDeform ==
    /\ op = "deform" /\ pc = "deform_loop"
    /\ s \in RunStrings \cup MixedStrings
    /\ v = <<>> /\ i = 0 /\ dpos = 0
    /\ IdleForm /\ IdleLevel /\ IdleMerge
    /\ ret = "unset" /\ err = "none"

\* get_confusion_level(s) is called: the booleans and the two sets as first assigned
InitLevel ==
    /\ op = "level" /\ pc = "level_loop"
    /\ ls \in Strings(LevelAlphabet, MaxLevelLen)
    /\ lpos = 0 /\ flags = InitFlags
    /\ used_scripts = {} /\ directionalities = {} /\ level = "unset"
    /\ IdleForm /\ IdleDeform /\ IdleMerge
    /\ i = 0 /\ ret = "unset" /\ err = "none"

\* merge_ranges(r) is called: pending_start, pending_stop, *pending_args = None, None, None
InitMerge ==
    /\ op = "merge" /\ pc = "merge_loop"
    /\ mr \in MergeInputs
    /\ mpos = 0 /\ pending = <<None, None, NoneArgs>> /\ out = <<>>
    /\ IdleForm /\ IdleDeform /\ IdleLevel
    /\ i = 0 /\ ret = "unset" /\ err = "none"

NextForm ==
    \/ FormCheck \/ FormStep \/ FormClassify \/ LevelChar \/ LevelFinish \/ FormReturn
    \/ RoundTrip \/ DeformStep \/ DeformEnd

NextDeform == DeformStep \/ DeformEnd

NextLevel == LevelChar \/ LevelFinish

NextMerge == MergeStep \/ MergeFinish

Init == InitForm \/ InitDeform \/ InitLevel \/ InitMerge

Next == NextForm \/ NextMerge

\* one specification per entry point, and the whole program
SpecForm == InitForm /\ [][NextForm]_vars
SpecDeform == InitDeform /\ [][NextDeform]_vars
SpecLevel == InitLevel /\ [][NextLevel]_vars
SpecMerge == InitMerge /\ [][NextMerge]_vars
Spec == Init /\ [][Next]_vars

-----------------------------------------------------------------------------
(* What the properties are stated with.  These say what is expected, in the *)
(* words of the specification: they read the tables as yielded and the bits *)
(* of an integer, and use none of the operators that model a step of        *)
(* form_i_dunno, deform_i_dunno, get_confusion_level or merge_ranges.       *)

\* the natural width of a code point
WidthClass(c) ==
    CASE c <= 127 -> 7
      [] c > 127 /\ c <= 2047 -> 11
      [] c > 2047 /\ c <= 65535 -> 16
      [] OTHER -> 21

\* each code point of str has the width the format gives its position
WidthsMatch(str, f) ==
    /\ Len(str) = Len(f)
    /\ \A k \in 1..Len(str) : WidthClass(str[k]) = f[k]

\* the sum of the natural widths of str
RECURSIVE TotalWidth(_)
TotalWidth(str) == IF str = <<>> THEN 0 ELSE WidthClass(Head(str)) + TotalWidth(Tail(str))

\* the address class of a bit width
KlsOf(width) == IF width = 32 THEN "IPv4Address" ELSE "IPv6Address"

\* the p-th most significant bit of the width-bit number addr
BitMSB(addr, width, p) == Bit(addr, width - p + 1)

\* bits before + 1 .. before + n of addr, most significant first, as a number
RECURSIVE ChunkBE(_, _, _, _)
ChunkBE(addr, width, before, n) ==
    IF n = 0 THEN 0
    ELSE 2 * ChunkBE(addr, width, before, n - 1) + BitMSB(addr, width, before + n)

\* f[1] + ... + f[k]
RECURSIVE Prefix(_, _)
Prefix(f, k) == IF k = 0 THEN 0 ELSE f[k] + Prefix(f, k - 1)

\* 0b11000110001100110110010010100100, least significant bit first
RFCAddress ==
    <<0,0,1,0,0,1,0,1, 0,0,1,0,0,1,1,0, 1,1,0,0,1,1,0,0, 0,1,1,0,0,0,1,1>>

\* U+0063 U+000C U+006C U+04A4
RFCString == <<99, 12, 108, 1188>>

\* the script of c in Scripts.txt, if it has one
ScriptTags(c) ==
    {ScriptsRaw[e][3] : e \in {x \in 1..Len(ScriptsRaw) :
                                  ScriptsRaw[x][1] <= c /\ c <= ScriptsRaw[x][2]}}
HasScript(c) == ScriptTags(c) # {}
ScriptOf(c) == CHOOSE script \in ScriptTags(c) : TRUE

MultiOctet(str) == \E k \in 1..Len(str) : str[k] > 127
NonPrintable(str) == \E k \in 1..Len(str) : category(str[k]) \in {"Cf", "Cc"}
Symbol(str) == \E k \in 1..Len(str) : category(str[k]) \in {"Sm", "Sc", "Sk", "So"}
TwoScripts(str) == Cardinality({ScriptOf(str[k]) : k \in 1..Len(str)}) >= 2
DifferentDirectionalities(str) == Cardinality({bidirectional(str[k]) : k \in 1..Len(str)}) >= 2
IsConfusable(str) ==
    \E k \in 1..Len(confusables) : \E p \in 1..Len(str) :
        /\ p + Len(confusables[k]) - 1 <= Len(str)
        /\ \A q \in 1..Len(confusables[k]) : str[p + q - 1] = confusables[k][q]
IsEmoji(str) ==
    \E k \in 1..Len(str) : \E e \in 1..Len(EmojiRaw) :
        EmojiRaw[e][1] <= str[k] /\ str[k] <= EmojiRaw[e][2]

Count(bools) == Cardinality({k \in DOMAIN bools : bools[k]})
SatCount(str) == Count(<<NonPrintable(str), TwoScripts(str), Symbol(str)>>)
DelCount(str) == Count(<<DifferentDirectionalities(str), IsConfusable(str), IsEmoji(str)>>)

\* the level the decision table gives str
ExpectedLevel(str) ==
    IF ~MultiOctet(str) THEN "NONE"
    ELSE IF SatCount(str) < 2 THEN "MINIMUM"
    ELSE IF DelCount(str) >= 2 THEN "DELIGHTFUL"
    ELSE "SATISFACTORY"

LevelRank(lv) ==
    CASE lv = "NONE" -> 0 [] lv = "MINIMUM" -> 1
      [] lv = "SATISFACTORY" -> 2 [] lv = "DELIGHTFUL" -> 3

\* form_i_dunno, then deform_i_dunno of what it returned, have both ended
RoundTripEnded == op = "deform" /\ N # 0 /\ pc \in {"done", "raised"}

\* deform_i_dunno returned the address it was formed from
ReturnedSameAddress ==
    /\ pc = "done"
    /\ ret.kls = KlsOf(N)
    /\ Len(ret.value) <= N \/ \A k \in (N + 1)..Len(ret.value) : ret.value[k] = 0
    /\ \A k \in 1..N : Bit(ret.value, k) = Bit(a, k)

-----------------------------------------------------------------------------
(* The properties *)

\* C1: round trip.  When form_i_dunno(a, fmt) returns a string every code
\* point of which has the natural width its position has in fmt, then
\* deform_i_dunno of that string returns an address of a's bit width and value.
C1_RoundTrip ==
    (RoundTripEnded /\ WidthsMatch(r, fmt)) => ReturnedSameAddress

\* C1 happens: an IPv6 address formed with matching widths has been deformed.
C1_Witness ==
    /\ RoundTripEnded /\ WidthsMatch(r, fmt)
    /\ N = 128 /\ pc = "done" /\ \E k \in 1..Len(fmt) : fmt[k] = 21

\* C2: encode chunking.  When form_i_dunno returns, the string has len(fmt)
\* code points and the k-th is the fmt[k] bits of a after the first
\* fmt[1] + ... + fmt[k-1] most significant bits, read big-endian; and
\* 198.51.100.164 with [7, 7, 7, 11] returns U+0063 U+000C U+006C U+04A4.
C2_EncodeChunking ==
    /\ (op = "form" /\ pc = "done") =>
          /\ Len(ret) = Len(fmt)
          /\ \A k \in 1..Len(fmt) : ret[k] = ChunkBE(a, N, Prefix(fmt, k - 1), fmt[k])
    /\ (op = "form" /\ pc \in {"done", "raised"} /\ N = 32 /\ a = RFCAddress
          /\ fmt = <<7, 7, 7, 11>>) =>
          (pc = "done" /\ ret = RFCString)

\* C2 happens: the RFC's example has been formed.
C2_Witness ==
    op = "form" /\ pc = "done" /\ a = RFCAddress /\ fmt = <<7, 7, 7, 11>> /\ ret = RFCString

\* C3: format sum invariant.  Once the format has been checked, a format whose
\* widths do not sum to the address's bit width has raised the format-mismatch
\* error: nothing was returned, no code point extracted, nothing classified.
C3_FormatMismatch ==
    (Prefix(fmt, Len(fmt)) # N /\ pc # "form" /\ op \in {"form", "deform"} /\ N # 0) =>
        /\ op = "form" /\ pc = "raised" /\ err = "FormatMismatch"
        /\ ret = "unset"
        /\ r = <<>> /\ i = 0 /\ fpos = 0
        /\ level = "unset" /\ lpos = 0 /\ flags = InitFlags

\* C3 happens: an IPv6 address with a format for IPv4 has been refused.
C3_Witness ==
    /\ pc = "raised" /\ err = "FormatMismatch"
    /\ N = 128 /\ Prefix(fmt, Len(fmt)) = 32

\* C4: decode length partition.  With i the sum of the natural widths of the
\* input, deform_i_dunno returns an IPv4 address iff 32 <= i < 52, an IPv6
\* address iff 128 <= i < 148, and raises the invalid-length error otherwise;
\* the value it returns is below 2^32, respectively 2^128.
C4_DecodePartition ==
    (op = "deform" /\ pc \in {"done", "raised"}) =>
        LET w == TotalWidth(s)
        IN  /\ (32 <= w /\ w < 52) =>
                  /\ pc = "done" /\ ret.kls = "IPv4Address"
                  /\ \A k \in 1..Len(ret.value) : k > 32 => ret.value[k] = 0
            /\ (128 <= w /\ w < 148) =>
                  /\ pc = "done" /\ ret.kls = "IPv6Address"
                  /\ \A k \in 1..Len(ret.value) : k > 128 => ret.value[k] = 0
            /\ ~((32 <= w /\ w < 52) \/ (128 <= w /\ w < 148)) =>
                  (pc = "raised" /\ err = "InvalidLength")

\* C4 happens: a string of 147 bits of the greatest code points was deformed.
C4_Witness ==
    /\ op = "deform" /\ pc = "done" /\ TotalWidth(s) = 147
    /\ ret.kls = "IPv6Address" /\ \A k \in 1..Len(s) : s[k] = 1114111

\* C5: level decision.  A string whose code points all have a script gets a
\* level, and it is NONE iff not multiOctet; else MINIMUM iff fewer than 2 of
\* (nonPrintable, twoScripts, symbol); else DELIGHTFUL iff at least 2 of
\* (differentDirectionalities, isConfusable, isEmoji); else SATISFACTORY.
C5_LevelDecision ==
    (op = "level" /\ pc \in {"done", "raised"}) =>
        IF \A k \in 1..Len(ls) : HasScript(ls[k])
          THEN /\ pc = "done"
               /\ ret \in {"NONE", "MINIMUM", "SATISFACTORY", "DELIGHTFUL"}
               /\ ret = ExpectedLevel(ls)
               /\ LevelRank(ret) >= 2 => SatCount(ls) >= 2
               /\ (MultiOctet(ls) /\ SatCount(ls) >= 2) =>
                      (ret = "DELIGHTFUL" <=> DelCount(ls) >= 2)
          ELSE pc = "raised" /\ err = "UnknownScript"

\* C5 happens: a string was found DELIGHTFUL.
C5_Witness ==
    /\ op = "level" /\ pc = "done" /\ ret = "DELIGHTFUL"
    /\ SatCount(ls) >= 2 /\ DelCount(ls) >= 2

\* C6: a string of code points <= 0x7F gets NONE, whatever its other flags.
C6_SingleOctetNone ==
    (op = "level" /\ pc \in {"done", "raised"} /\ \A k \in 1..Len(ls) : ls[k] <= 127) =>
        (pc = "done" /\ ret = "NONE")

\* C6 happens: a single-octet string with a control character, two scripts,
\* a confusable and an emoji got NONE.
C6_Witness ==
    /\ op = "level" /\ pc = "done" /\ ret = "NONE" /\ ls # <<>>
    /\ \A k \in 1..Len(ls) : ls[k] <= 127
    /\ flags.s_non_printable_char /\ flags.s_two_different_scripts
    /\ flags.d_confusable /\ flags.d_emoji

\* C7: insufficient confusion.  form_i_dunno returns no string of level NONE:
\* when the chunks it extracted classify as NONE (as when all are <= 0x7F) it
\* has raised the insufficient-confusion error and returned nothing.
C7_InsufficientConfusion ==
    /\ (op = "form" /\ pc = "done") => (ExpectedLevel(ret) # "NONE" /\ MultiOctet(ret))
    /\ (op = "form" /\ pc \in {"done", "raised"} /\ err \notin {"FormatMismatch", "ChrRange"}
          /\ \A k \in 1..Len(r) : HasScript(r[k])) =>
          ((ExpectedLevel(r) = "NONE" \/ \A k \in 1..Len(r) : r[k] <= 127) =>
              (pc = "raised" /\ err = "InsufficientConfusion" /\ ret = "unset"))

\* C7 happens: an address whose chunks are all <= 0x7F was refused.
C7_Witness ==
    /\ op = "form" /\ pc = "raised" /\ err = "InsufficientConfusion"
    /\ Len(r) = Len(fmt) /\ r # <<>> /\ \A k \in 1..Len(r) : r[k] <= 127

\* C10: deform_i_dunno of a string form_i_dunno returned gives back the
\* address, width and value, or raises the invalid-length error; it returns no
\* other value and no address of the other family.
C10_NoWrongAddress ==
    RoundTripEnded => (ReturnedSameAddress \/ (pc = "raised" /\ err = "InvalidLength"))

\* C10 happens: an IPv6 address formed into seven code points of 53 natural
\* bits, two more than the IPv4 window takes, was refused by deform_i_dunno.
C10_Witness ==
    /\ RoundTripEnded /\ pc = "raised" /\ err = "InvalidLength"
    /\ N = 128 /\ TotalWidth(r) = 53

\* the sequence is sorted by start
SortedByStart(q) == \A k \in 1..(Len(q) - 1) : q[k][1] <= q[k + 1][1]

\* no entry touches a later entry of its tag
NoneMergeable(q) ==
    \A j \in 1..Len(q) : \A k \in 1..Len(q) :
        (j # k /\ q[j][3] = q[k][3]) => q[j][2] + 1 # q[k][1]

\* no two entries of a tag share a code point
DisjointWithinTag(q) ==
    \A j \in 1..Len(q) : \A k \in 1..Len(q) :
        (j < k /\ q[j][3] = q[k][3]) => q[j][2] < q[k][1]

\* the code points the entries of q give to tag
Covered(q, tag) ==
    {c \in 1..MaxPoint : \E k \in 1..Len(q) : q[k][3] = tag /\ q[k][1] <= c /\ c <= q[k][2]}

\* C8: merge idempotence.  merge_ranges returns an already-merged sequence
\* (sorted, no two entries of a tag touching), the empty one included,
\* unchanged; and [(1,3,Latin),(4,6,Latin)] gives [(1,6,Latin)].
C8_MergeIdempotent ==
    (op = "merge" /\ pc = "done") =>
        /\ (SortedByStart(mr) /\ NoneMergeable(mr)) => ret = mr
        /\ mr = << <<1, 3, "Latin">>, <<4, 6, "Latin">> >> => ret = << <<1, 6, "Latin">> >>

\* C9: merge maximality.  For an input sorted by start whose entries of a tag
\* do not overlap, tags interleaved or not, no two entries of a tag in the
\* output touch, and each tag covers the code points it covered in the input.
C9_MergeMaximal ==
    (op = "merge" /\ pc = "done" /\ SortedByStart(mr) /\ DisjointWithinTag(mr)) =>
        /\ NoneMergeable(ret)
        /\ \A tag \in {"Latin", "Greek"} : Covered(ret, tag) = Covered(mr, tag)

=============================================================================
